---- MODULE Spec2Model ----
(***************************************************************************)
(* Gesture evaluation and site-configuration resolution of the             *)
(* Web-Accessibility-API service (app/services.py, app/models.py,          *)
(* app/schemas.py, app/main.py).                                           *)
(*                                                                         *)
(* Conventions                                                             *)
(*   - An Optional[T] value is a set with at most one element:             *)
(*     None is {} and a present value x is {x}.                            *)
(*   - Confidence values and thresholds are in tenths (0.7 is 7).          *)
(*   - Times are in milliseconds since the start of the run.               *)
(*   - A database table is the set of its rows.                            *)
(*   - The text column site_configs.enabled_gestures holds JSON, modelled  *)
(*     as the sequence of its tokens.                                      *)
(***************************************************************************)
EXTENDS Integers, Sequences, FiniteSets, TLC

----------------------------------------------------------------------------
(* Bounds of the model *)

MaxOps == 3
MaxTime == 800
TickMs == 400
NumWorkers == 2
MaxFields == 2

----------------------------------------------------------------------------
(* Optional values *)

None == {}
Some(x) == {x}
IsNone(o) == o = {}
Get(o) == CHOOSE x \in o : TRUE

----------------------------------------------------------------------------
(* Inputs of the requests *)

Sites == {"s1", "s2"}
Gestures == {"pinch", "wave"}
Confidences == {6, 10}
Actions == {"custom_action", "zoom"}
ProfileInputs == {None, Some("elderly"), Some("motor_impaired"), Some("kids"), Some("")}
ThresholdInputs == {None, Some(9)}
CooldownInputs == {None, Some(0), Some(600)}
EnabledInputs == {None, Some(<<>>), Some(<<"pinch", "wave">>)}
Workers == 1..NumWorkers
MainLoop == 1

EvaluateRequests == [site_id : Sites, gesture : Gestures, confidence : Confidences]
MappingRequests == [site_id : Sites, gesture : Gestures, action : Actions]
Present(o) == IF o = {} THEN 0 ELSE 1
(* partial updates with at most MaxFields fields present *)
UpdateRequests ==
    {r \in [site_id : Sites, enabled_gestures : EnabledInputs,
            confidence_threshold : ThresholdInputs, cooldown_ms : CooldownInputs,
            profile : ProfileInputs] :
        Present(r.enabled_gestures) + Present(r.confidence_threshold)
          + Present(r.cooldown_ms) + Present(r.profile) <= MaxFields}

----------------------------------------------------------------------------
(* Module-level constants of app/services.py *)

GESTURE_ACTION_MAP ==
    [g \in {"open_palm", "fist", "swipe_left", "swipe_right", "pinch"} |->
        CASE g = "open_palm" -> "scroll_down"
          [] g = "fist" -> "scroll_up"
          [] g = "swipe_left" -> "focus_previous"
          [] g = "swipe_right" -> "focus_next"
          [] g = "pinch" -> "click"]

CONFIDENCE_THRESHOLD == 7
COOLDOWN_MS == 600

PROFILES ==
    [p \in {"default", "elderly", "motor_impaired"} |->
        CASE p = "default" ->
                [confidence_threshold |-> 7, cooldown_ms |-> 800,
                 enabled_gestures |-> <<"open_palm", "fist", "swipe_left", "swipe_right", "pinch">>]
          [] p = "elderly" ->
                [confidence_threshold |-> 6, cooldown_ms |-> 1200,
                 enabled_gestures |-> <<"open_palm", "fist">>]
          [] p = "motor_impaired" ->
                [confidence_threshold |-> 5, cooldown_ms |-> 1500,
                 enabled_gestures |-> <<"open_palm">>]]

(* a slip in get_profile_defaults: a name outside the catalog falls back  *)
(* to the module-level constants instead of the "default" profile         *)
get_profile_defaults_LegacyFallback(profile_name) ==
    IF profile_name \in DOMAIN PROFILES THEN PROFILES[profile_name]
    ELSE [confidence_threshold |-> CONFIDENCE_THRESHOLD, cooldown_ms |-> COOLDOWN_MS,
          enabled_gestures |-> PROFILES["default"].enabled_gestures]

get_profile_defaults(profile_name) ==
    IF profile_name \in DOMAIN PROFILES THEN PROFILES[profile_name] ELSE PROFILES["default"]

----------------------------------------------------------------------------
(* JSON text of a list of names *)

RECURSIVE JoinTokens(_)
JoinTokens(list) ==
    IF list = <<>> THEN <<>>
    ELSE IF Len(list) = 1 THEN <<list[1]>>
    ELSE <<list[1], ",">> \o JoinTokens(Tail(list))

json_dumps(list) == <<"[">> \o JoinTokens(list) \o <<"]">>

RECURSIVE ParseItems(_)
ParseItems(tokens) ==
    IF tokens = <<>> THEN <<>>
    ELSE IF Head(tokens) \in {"[", ",", "]"} THEN ParseItems(Tail(tokens))
    ELSE <<Head(tokens)>> \o ParseItems(Tail(tokens))

json_loads(text) == ParseItems(text)

(* a slip in set_enabled_gestures: "if gestures_list:" stores no text for *)
(* an empty list                                                          *)
set_enabled_gestures_Truthy(gestures_list) ==
    IF ~IsNone(gestures_list) /\ Get(gestures_list) # <<>>
    THEN Some(json_dumps(Get(gestures_list)))
    ELSE None

(* SiteConfig.set_enabled_gestures: the new value of the text column *)
set_enabled_gestures(gestures_list) ==
    IF ~IsNone(gestures_list) THEN Some(json_dumps(Get(gestures_list))) ELSE None

(* SiteConfig.get_enabled_gestures: a None or empty column reads as None *)
get_enabled_gestures(column) ==
    IF ~IsNone(column) /\ Get(column) # <<>> THEN Some(json_loads(Get(column))) ELSE None

Elems(list) == {list[i] : i \in 1..Len(list)}

----------------------------------------------------------------------------
(* State *)

VARIABLES
    site_configs,     \* table site_configs: set of SiteConfig rows
    gesture_configs,  \* table gesture_configs: set of GestureConfig rows
    gesture_events,   \* table gesture_events in insertion order
    last_execution,   \* CooldownManager._last_execution
    now,              \* the latest value read from datetime.utcnow()
    pc,               \* position of each evaluation in flight
    req,              \* request of each worker's current or last evaluation
    cfg,              \* site_config read by that evaluation
    act,              \* action resolved by that evaluation
    resp,             \* response of the worker's last finished evaluation
    stamp,            \* timestamp of the event that evaluation appended
    last,             \* the last configuration request and its response
    nops,             \* number of requests received
    accepted          \* number of execute=true responses returned

vars == <<site_configs, gesture_configs, gesture_events, last_execution, now,
          pc, req, cfg, act, resp, stamp, last, nops, accepted>>

----------------------------------------------------------------------------
(* Site configuration *)

SiteConfigResponse(config) ==
    [site_id |-> config.site_id,
     enabled_gestures |-> get_enabled_gestures(config.enabled_gestures),
     confidence_threshold |-> config.confidence_threshold,
     cooldown_ms |-> config.cooldown_ms,
     profile |-> config.profile]

(* db.query(SiteConfig).filter(site_id == ...).first() *)
QuerySiteConfig(table, site_id) ==
    LET rows == {c \in table : c.site_id = site_id}
    IN IF rows = {} THEN None ELSE Some(CHOOSE c \in rows : TRUE)

DefaultSiteConfig(site_id) ==
    LET profile_defaults == get_profile_defaults("default")
    IN [site_id |-> site_id,
        confidence_threshold |-> profile_defaults.confidence_threshold,
        cooldown_ms |-> profile_defaults.cooldown_ms,
        profile |-> "default",
        enabled_gestures |-> set_enabled_gestures(Some(profile_defaults.enabled_gestures))]

(* a slip in get_site_config: the default config is created without       *)
(* looking for a stored one                                                *)
get_site_config_AlwaysCreate(table, site_id) ==
    LET config == DefaultSiteConfig(site_id)
    IN [table |-> table \cup {config},
        response |-> SiteConfigResponse(config)]

(* SiteConfigService.get_site_config: the table after the call and the response *)
get_site_config(table, site_id) ==
    LET found == QuerySiteConfig(table, site_id)
        config == IF IsNone(found) THEN DefaultSiteConfig(site_id) ELSE Get(found)
    IN [table |-> IF IsNone(found) THEN table \cup {config} ELSE table,
        response |-> SiteConfigResponse(config)]

(* main.initialize_site_configs: default configs of the registered sites *)
initialize_site_configs(registered) == {DefaultSiteConfig(s) : s \in registered}

(* SiteConfig(site_id=...): a row whose other attributes are not set yet; *)
(* update_site_config assigns every one of them before it commits          *)
BlankSiteConfig(site_id) ==
    [site_id |-> site_id, profile |-> "", confidence_threshold |-> 0,
     cooldown_ms |-> 0, enabled_gestures |-> None]

(* update_site_config, "apply profile defaults first" *)
ApplyProfileDefaults(config, new_profile) ==
    LET profile_defaults == get_profile_defaults(new_profile)
    IN [config EXCEPT
          !.profile = new_profile,
          !.confidence_threshold = profile_defaults.confidence_threshold,
          !.cooldown_ms = profile_defaults.cooldown_ms,
          !.enabled_gestures = set_enabled_gestures(Some(profile_defaults.enabled_gestures))]

(* update_site_config, "apply explicit values" *)
ApplyExplicitValues(config, request) ==
    LET c1 == IF ~IsNone(request.enabled_gestures)
              THEN [config EXCEPT !.enabled_gestures = set_enabled_gestures(request.enabled_gestures)]
              ELSE config
        c2 == IF ~IsNone(request.confidence_threshold)
              THEN [c1 EXCEPT !.confidence_threshold = Get(request.confidence_threshold)]
              ELSE c1
    IN IF ~IsNone(request.cooldown_ms)
       THEN [c2 EXCEPT !.cooldown_ms = Get(request.cooldown_ms)]
       ELSE c2

(* the profile named by the request, else the stored one, else "default" *)
NewProfile(found, request) ==
    IF ~IsNone(request.profile) THEN Get(request.profile)
    ELSE IF ~IsNone(found) THEN Get(found).profile ELSE "default"

(* a slip in update_site_config: every request that names a profile      *)
(* counts as a change of profile                                          *)
ProfileChanged_WhenPresent(found, request) ==
    IF IsNone(found) THEN TRUE
    ELSE ~IsNone(request.profile)

ProfileChanged(found, request) ==
    IF IsNone(found) THEN TRUE
    ELSE ~IsNone(request.profile) /\ Get(request.profile) # Get(found).profile

(* a slip in update_site_config: the profile defaults are applied after the *)
(* explicit values and overwrite them                                       *)
update_site_config_ProfileLast(table, request) ==
    LET found == QuerySiteConfig(table, request.site_id)
        base == IF IsNone(found) THEN BlankSiteConfig(request.site_id) ELSE Get(found)
        c1 == ApplyExplicitValues(base, request)
        c2 == IF ProfileChanged(found, request)
              THEN ApplyProfileDefaults(c1, NewProfile(found, request))
              ELSE c1
        c3 == IF c2.profile = "" THEN [c2 EXCEPT !.profile = "default"] ELSE c2
    IN [table |-> (table \ found) \cup {c3},
        response |-> SiteConfigResponse(c3)]

(* a slip in update_site_config: the closing "if not config.profile" is   *)
(* missing and an empty profile name is stored as it is                   *)
update_site_config_KeepsEmptyProfile(table, request) ==
    LET found == QuerySiteConfig(table, request.site_id)
        base == IF IsNone(found) THEN BlankSiteConfig(request.site_id) ELSE Get(found)
        c1 == IF ProfileChanged(found, request)
              THEN ApplyProfileDefaults(base, NewProfile(found, request))
              ELSE base
        c2 == ApplyExplicitValues(c1, request)
    IN [table |-> (table \ found) \cup {c2},
        response |-> SiteConfigResponse(c2)]

(* SiteConfigService.update_site_config: the table after the call and the response *)
update_site_config(table, request) ==
    LET found == QuerySiteConfig(table, request.site_id)
        base == IF IsNone(found) THEN BlankSiteConfig(request.site_id) ELSE Get(found)
        c1 == IF ProfileChanged(found, request)
              THEN ApplyProfileDefaults(base, NewProfile(found, request))
              ELSE base
        c2 == ApplyExplicitValues(c1, request)
        c3 == IF c2.profile = "" THEN [c2 EXCEPT !.profile = "default"] ELSE c2
    IN [table |-> (table \ found) \cup {c3},
        response |-> SiteConfigResponse(c3)]

----------------------------------------------------------------------------
(* Gesture mappings *)

(* db.query(GestureConfig).filter(site_id == ..., gesture == ...).first() *)
QueryGestureConfig(table, site_id, gesture) ==
    LET rows == {m \in table : m.site_id = site_id /\ m.gesture = gesture}
    IN IF rows = {} THEN None ELSE Some(CHOOSE m \in rows : TRUE)

(* a slip in save_gesture_mapping: an existing mapping is kept and a new   *)
(* row is added next to it                                                 *)
save_gesture_mapping_AlwaysInsert(table, request) ==
    LET existing_config == QueryGestureConfig(table, request.site_id, request.gesture)
        row == [site_id |-> request.site_id, gesture |-> request.gesture,
                action |-> request.action]
    IN [table |-> table \cup {row},
        response |-> [site_id |-> request.site_id, gesture |-> request.gesture,
                      action |-> request.action,
                      message |-> IF ~IsNone(existing_config)
                                  THEN "Gesture mapping updated successfully"
                                  ELSE "Gesture mapping created successfully"]]

(* ConfigService.save_gesture_mapping: the table after the call and the response *)
save_gesture_mapping(table, request) ==
    LET existing_config == QueryGestureConfig(table, request.site_id, request.gesture)
        row == [site_id |-> request.site_id, gesture |-> request.gesture,
                action |-> request.action]
    IN [table |-> IF ~IsNone(existing_config)
                  THEN (table \ existing_config) \cup {row}
                  ELSE table \cup {row},
        response |-> [site_id |-> request.site_id, gesture |-> request.gesture,
                      action |-> request.action,
                      message |-> IF ~IsNone(existing_config)
                                  THEN "Gesture mapping updated successfully"
                                  ELSE "Gesture mapping created successfully"]]

(* a slip in get_action_for_gesture: the global map is consulted first *)
get_action_for_gesture_DefaultFirst(table, site_id, gesture) ==
    LET config == QueryGestureConfig(table, site_id, gesture)
    IN IF gesture \in DOMAIN GESTURE_ACTION_MAP THEN Some(GESTURE_ACTION_MAP[gesture])
       ELSE IF ~IsNone(config) THEN Some(Get(config).action)
       ELSE None

(* ConfigService.get_action_for_gesture *)
get_action_for_gesture(table, site_id, gesture) ==
    LET config == QueryGestureConfig(table, site_id, gesture)
    IN IF ~IsNone(config) THEN Some(Get(config).action)
       ELSE IF gesture \in DOMAIN GESTURE_ACTION_MAP THEN Some(GESTURE_ACTION_MAP[gesture])
       ELSE None

----------------------------------------------------------------------------
(* Cooldown manager *)

(* a slip in is_in_cooldown: the end of the window is included *)
is_in_cooldown_Inclusive(last_exec, site_id, gesture, cooldown_ms, current_time) ==
    LET key == <<site_id, gesture>>
    IN IF key \notin DOMAIN last_exec THEN FALSE
       ELSE (current_time - last_exec[key]) <= cooldown_ms

(* a slip in is_in_cooldown: the window is the module-level COOLDOWN_MS,  *)
(* not the cooldown_ms passed by the caller                               *)
is_in_cooldown_LegacyWindow(last_exec, site_id, gesture, cooldown_ms, current_time) ==
    LET key == <<site_id, gesture>>
    IN IF key \notin DOMAIN last_exec THEN FALSE
       ELSE (current_time - last_exec[key]) < COOLDOWN_MS

(* CooldownManager.is_in_cooldown, with current_time the clock it reads *)
is_in_cooldown(last_exec, site_id, gesture, cooldown_ms, current_time) ==
    LET key == <<site_id, gesture>>
    IN IF key \notin DOMAIN last_exec THEN FALSE
       ELSE (current_time - last_exec[key]) < cooldown_ms

(* a slip in update_execution_time: the key is built as (gesture, site_id) *)
update_execution_time_SwappedKey(last_exec, site_id, gesture, current_time) ==
    LET key == <<gesture, site_id>>
    IN [k \in DOMAIN last_exec \cup {key} |-> IF k = key THEN current_time ELSE last_exec[k]]

(* CooldownManager.update_execution_time *)
update_execution_time(last_exec, site_id, gesture, current_time) ==
    LET key == <<site_id, gesture>>
    IN [k \in DOMAIN last_exec \cup {key} |-> IF k = key THEN current_time ELSE last_exec[k]]

----------------------------------------------------------------------------
(* Gates of GestureService.evaluate_gesture *)

Deny(action, reason) == [execute |-> FALSE, action |-> action, reason |-> reason]

(* a slip in the enabled-gesture check: "if site_config.enabled_gestures:" *)
(* takes an empty list for no restriction                                  *)
GestureDisabled_Truthy(site_config, gesture) ==
    /\ ~IsNone(site_config.enabled_gestures)
    /\ Get(site_config.enabled_gestures) # <<>>
    /\ gesture \notin Elems(Get(site_config.enabled_gestures))

(* the enabled-gesture check *)
GestureDisabled(site_config, gesture) ==
    /\ ~IsNone(site_config.enabled_gestures)
    /\ gesture \notin Elems(Get(site_config.enabled_gestures))

(* a slip in the confidence check: the threshold of the site's profile is *)
(* used instead of the stored threshold                                   *)
ConfidenceTooLow_ProfileThreshold(site_config, confidence) ==
    confidence < get_profile_defaults(site_config.profile).confidence_threshold

(* the confidence check *)
ConfidenceTooLow(site_config, confidence) ==
    confidence < site_config.confidence_threshold

(* the reason returned when no action is found *)
UnknownGestureReason(gesture) == "Unknown gesture: " \o gesture

(* a slip in the order of the checks: confidence before enablement *)
FirstGates_ConfidenceFirst(site_config, request) ==
    IF ConfidenceTooLow(site_config, request.confidence)
    THEN Some(Deny(None, "confidence_too_low"))
    ELSE IF GestureDisabled(site_config, request.gesture)
    THEN Some(Deny(None, "gesture_disabled"))
    ELSE None

(* the checks made before the action lookup: None when both pass *)
FirstGates(site_config, request) ==
    IF GestureDisabled(site_config, request.gesture)
    THEN Some(Deny(None, "gesture_disabled"))
    ELSE IF ConfidenceTooLow(site_config, request.confidence)
    THEN Some(Deny(None, "confidence_too_low"))
    ELSE None

GestureEventRow(request, timestamp) ==
    [site_id |-> request.site_id, gesture |-> request.gesture,
     confidence |-> request.confidence, timestamp |-> timestamp]

Accept(action) == [execute |-> TRUE, action |-> action, reason |-> "gesture_accepted"]

Raised(error) == [raised |-> error]

----------------------------------------------------------------------------
(* Initial state: tables after startup, no request received *)

Init ==
    /\ \E registered \in SUBSET Sites : site_configs = initialize_site_configs(registered)
    /\ gesture_configs = {}
    /\ gesture_events = <<>>
    /\ last_execution = <<>>
    /\ now = 0
    /\ pc = [w \in Workers |-> "idle"]
    /\ req = [w \in Workers |-> None]
    /\ cfg = [w \in Workers |-> None]
    /\ act = [w \in Workers |-> None]
    /\ resp = [w \in Workers |-> None]
    /\ stamp = [w \in Workers |-> None]
    /\ last = None
    /\ nops = 0
    /\ accepted = 0

AllIdle == \A w \in Workers : pc[w] = "idle"

----------------------------------------------------------------------------
(* datetime.utcnow(): the values the next read of the clock can return *)

ClockReads == {t \in now..MaxTime : (t - now) % TickMs = 0}

----------------------------------------------------------------------------
(* GestureService.evaluate_gesture, one action per access to shared state *)

(* get_site_config, then the enabled-gesture and confidence checks *)
EvalConfig(w, request) ==
    /\ pc[w] = "idle"
    /\ nops < MaxOps
    /\ LET got == get_site_config(site_configs, request.site_id)
           denied == FirstGates(got.response, request)
       IN /\ site_configs' = got.table
          /\ req' = [req EXCEPT ![w] = Some(request)]
          /\ cfg' = [cfg EXCEPT ![w] = Some(got.response)]
          /\ act' = [act EXCEPT ![w] = None]
          /\ resp' = [resp EXCEPT ![w] = denied]
          /\ stamp' = [stamp EXCEPT ![w] = None]
          /\ pc' = [pc EXCEPT ![w] = IF IsNone(denied) THEN "lookup" ELSE "idle"]
    /\ nops' = nops + 1
    /\ UNCHANGED <<gesture_configs, gesture_events, last_execution, now, last, accepted>>

(* get_action_for_gesture and the unknown-gesture return *)
EvalLookup(w) ==
    /\ pc[w] = "lookup"
    /\ LET request == Get(req[w])
           action == get_action_for_gesture(gesture_configs, request.site_id, request.gesture)
       IN /\ act' = [act EXCEPT ![w] = action]
          /\ IF IsNone(action)
             THEN /\ resp' = [resp EXCEPT ![w] = Some(Deny(None, UnknownGestureReason(request.gesture)))]
                  /\ pc' = [pc EXCEPT ![w] = "idle"]
             ELSE /\ resp' = resp
                  /\ pc' = [pc EXCEPT ![w] = "cooldown"]
    /\ UNCHANGED <<site_configs, gesture_configs, gesture_events, last_execution,
                   now, req, cfg, stamp, last, nops, accepted>>

(* a variant of the cooldown check that logs the denied gesture as an event *)
EvalCooldown_LogsDenied(w) ==
    /\ pc[w] = "cooldown"
    /\ \E current_time \in ClockReads :
        LET request == Get(req[w])
        IN /\ now' = current_time
           /\ IF is_in_cooldown(last_execution, request.site_id, request.gesture,
                                Get(cfg[w]).cooldown_ms, current_time)
              THEN /\ resp' = [resp EXCEPT ![w] = Some(Deny(act[w], "cooldown_active"))]
                   /\ pc' = [pc EXCEPT ![w] = "idle"]
                   /\ gesture_events' =
                        Append(gesture_events, GestureEventRow(request, current_time))
              ELSE /\ resp' = resp
                   /\ pc' = [pc EXCEPT ![w] = "append"]
                   /\ gesture_events' = gesture_events
    /\ UNCHANGED <<site_configs, gesture_configs, last_execution,
                   req, cfg, act, stamp, last, nops, accepted>>

(* a variant of the cooldown check in which a denied attempt restarts the *)
(* window of its pair                                                     *)
EvalCooldown_RestartsWindow(w) ==
    /\ pc[w] = "cooldown"
    /\ \E current_time \in ClockReads :
        LET request == Get(req[w])
        IN /\ now' = current_time
           /\ IF is_in_cooldown(last_execution, request.site_id, request.gesture,
                                Get(cfg[w]).cooldown_ms, current_time)
              THEN /\ resp' = [resp EXCEPT ![w] = Some(Deny(act[w], "cooldown_active"))]
                   /\ pc' = [pc EXCEPT ![w] = "idle"]
                   /\ last_execution' =
                        update_execution_time(last_execution, request.site_id,
                                              request.gesture, current_time)
              ELSE /\ resp' = resp
                   /\ pc' = [pc EXCEPT ![w] = "append"]
                   /\ last_execution' = last_execution
    /\ UNCHANGED <<site_configs, gesture_configs, gesture_events,
                   req, cfg, act, stamp, last, nops, accepted>>

(* cooldown_manager.is_in_cooldown and the cooldown_active return *)
EvalCooldown(w) ==
    /\ pc[w] = "cooldown"
    /\ \E current_time \in ClockReads :
        LET request == Get(req[w])
        IN /\ now' = current_time
           /\ IF is_in_cooldown(last_execution, request.site_id, request.gesture,
                                Get(cfg[w]).cooldown_ms, current_time)
              THEN /\ resp' = [resp EXCEPT ![w] = Some(Deny(act[w], "cooldown_active"))]
                   /\ pc' = [pc EXCEPT ![w] = "idle"]
              ELSE /\ resp' = resp
                   /\ pc' = [pc EXCEPT ![w] = "append"]
    /\ UNCHANGED <<site_configs, gesture_configs, gesture_events, last_execution,
                   req, cfg, act, stamp, last, nops, accepted>>

(* db.add(gesture_event); db.commit() *)
EvalAppend(w) ==
    /\ pc[w] = "append"
    /\ \E timestamp \in ClockReads :
        /\ now' = timestamp
        /\ gesture_events' = Append(gesture_events, GestureEventRow(Get(req[w]), timestamp))
        /\ stamp' = [stamp EXCEPT ![w] = Some(timestamp)]
    /\ pc' = [pc EXCEPT ![w] = "record"]
    /\ UNCHANGED <<site_configs, gesture_configs, last_execution,
                   req, cfg, act, resp, last, nops, accepted>>

(* a variant in which the execution time is recorded before the event is *)
(* committed, so a failed commit leaves it behind                         *)
EvalAppendFail_RecordsExecution(w) ==
    /\ pc[w] = "append"
    /\ resp' = [resp EXCEPT ![w] = Some(Raised("StorageError"))]
    /\ pc' = [pc EXCEPT ![w] = "idle"]
    /\ last_execution' = update_execution_time(last_execution, Get(req[w]).site_id,
                                               Get(req[w]).gesture, now)
    /\ UNCHANGED <<site_configs, gesture_configs, gesture_events,
                   now, req, cfg, act, stamp, last, nops, accepted>>

(* db.commit() of the event raises: the exception leaves evaluate_gesture *)
EvalAppendFail(w) ==
    /\ pc[w] = "append"
    /\ resp' = [resp EXCEPT ![w] = Some(Raised("StorageError"))]
    /\ pc' = [pc EXCEPT ![w] = "idle"]
    /\ UNCHANGED <<site_configs, gesture_configs, gesture_events, last_execution,
                   now, req, cfg, act, stamp, last, nops, accepted>>

(* cooldown_manager.update_execution_time and the gesture_accepted return *)
EvalRecord(w) ==
    /\ pc[w] = "record"
    /\ \E current_time \in ClockReads :
        LET request == Get(req[w])
        IN /\ now' = current_time
           /\ last_execution' = update_execution_time(last_execution, request.site_id,
                                                      request.gesture, current_time)
    /\ resp' = [resp EXCEPT ![w] = Some(Accept(act[w]))]
    /\ pc' = [pc EXCEPT ![w] = "idle"]
    /\ accepted' = accepted + 1
    /\ UNCHANGED <<site_configs, gesture_configs, gesture_events,
                   req, cfg, act, stamp, last, nops>>

----------------------------------------------------------------------------
(* The configuration endpoints, one transaction each *)

GetSiteConfig(site_id) ==
    /\ nops < MaxOps
    /\ LET got == get_site_config(site_configs, site_id)
       IN /\ site_configs' = got.table
          /\ last' = Some([seq |-> nops + 1, op |-> "get_site_config",
                           request |-> [site_id |-> site_id], response |-> got.response])
    /\ nops' = nops + 1
    /\ UNCHANGED <<gesture_configs, gesture_events, last_execution, now,
                   pc, req, cfg, act, resp, stamp, accepted>>

UpdateSiteConfig(request) ==
    /\ nops < MaxOps
    /\ LET upd == update_site_config(site_configs, request)
       IN /\ site_configs' = upd.table
          /\ last' = Some([seq |-> nops + 1, op |-> "update_site_config",
                           request |-> request, response |-> upd.response])
    /\ nops' = nops + 1
    /\ UNCHANGED <<gesture_configs, gesture_events, last_execution, now,
                   pc, req, cfg, act, resp, stamp, accepted>>

SaveGestureMapping(request) ==
    /\ nops < MaxOps
    /\ LET saved == save_gesture_mapping(gesture_configs, request)
       IN /\ gesture_configs' = saved.table
          /\ last' = Some([seq |-> nops + 1, op |-> "save_gesture_mapping",
                           request |-> request, response |-> saved.response])
    /\ nops' = nops + 1
    /\ UNCHANGED <<site_configs, gesture_events, last_execution, now,
                   pc, req, cfg, act, resp, stamp, accepted>>

----------------------------------------------------------------------------
(* Specifications *)

(* Requests served one at a time, as the async handlers of app/main.py run *)
Next ==
    \/ \E request \in EvaluateRequests : AllIdle /\ EvalConfig(MainLoop, request)
    \/ \E w \in Workers : EvalLookup(w)
    \/ \E w \in Workers : EvalCooldown(w)
    \/ \E w \in Workers : EvalAppend(w)
    \/ \E w \in Workers : EvalAppendFail(w)
    \/ \E w \in Workers : EvalRecord(w)
    \/ \E site_id \in Sites : AllIdle /\ GetSiteConfig(site_id)
    \/ \E request \in UpdateRequests : AllIdle /\ UpdateSiteConfig(request)
    \/ \E request \in MappingRequests : AllIdle /\ SaveGestureMapping(request)

Spec == Init /\ [][Next]_vars

(* GestureService.evaluate_gesture called by concurrent callers *)
RaceNext ==
    \/ \E w \in Workers, request \in EvaluateRequests : EvalConfig(w, request)
    \/ \E w \in Workers : EvalLookup(w)
    \/ \E w \in Workers : EvalCooldown(w)
    \/ \E w \in Workers : EvalAppend(w)
    \/ \E w \in Workers : EvalAppendFail(w)
    \/ \E w \in Workers : EvalRecord(w)

RaceSpec == Init /\ [][RaceNext]_vars

----------------------------------------------------------------------------
(* Vocabulary of the properties *)

(* worker w holds the response of a finished evaluation *)
Returned(w) ==
    /\ pc[w] = "idle"
    /\ resp[w] # None
    /\ "reason" \in DOMAIN Get(resp[w])

(* the gesture of the evaluation is outside a non-null enabled-gesture set *)
NotEnabled(site_config, gesture) ==
    /\ site_config.enabled_gestures # None
    /\ \A i \in 1..Len(Get(site_config.enabled_gestures)) :
          Get(site_config.enabled_gestures)[i] # gesture

(* the pair of an evaluation has a recorded execution less than cooldown_ms ago *)
InCooldownWindow(w) ==
    LET key == <<Get(req[w]).site_id, Get(req[w]).gesture>>
    IN /\ key \in DOMAIN last_execution
       /\ now - last_execution[key] < Get(cfg[w]).cooldown_ms

(* the step is a configuration request of the given kind *)
ConfigStep(op) == last' # last /\ last' # None /\ Get(last').op = op

----------------------------------------------------------------------------
(* C1 as stated: every finished evaluation whose confidence is below the  *)
(* site's threshold returned execute=false, reason confidence_too_low,    *)
(* whichever gesture was sent, enabled for the site or not.               *)
C1_AsStated ==
    \A w \in Workers :
        (/\ Returned(w)
         /\ Get(req[w]).confidence < Get(cfg[w]).confidence_threshold)
        => Get(resp[w]) = [execute |-> FALSE, action |-> None,
                           reason |-> "confidence_too_low"]

(* C1 amended: an evaluation of a gesture that is enabled for the site    *)
(* (the enabled set is null or contains it) with confidence below the     *)
(* site's threshold stops at once with execute=false, action null and     *)
(* reason confidence_too_low, whether or not the pair is in cooldown.     *)
C1_LowConfidence ==
    \A w \in Workers :
        (/\ req[w] # None
         /\ ~NotEnabled(Get(cfg[w]), Get(req[w]).gesture)
         /\ Get(req[w]).confidence < Get(cfg[w]).confidence_threshold)
        => /\ pc[w] = "idle"
           /\ resp[w] = Some([execute |-> FALSE, action |-> None,
                               reason |-> "confidence_too_low"])

(* a low-confidence evaluation denied while its pair is in cooldown *)
C1_Witness ==
    \E w \in Workers :
        /\ Returned(w)
        /\ Get(resp[w]).reason = "confidence_too_low"
        /\ Get(req[w]).confidence < Get(cfg[w]).confidence_threshold
        /\ InCooldownWindow(w)

----------------------------------------------------------------------------
(* an evaluation of a gesture outside the enabled set has stopped with    *)
(* the gesture_disabled denial                                            *)
C2_Denied ==
    \A w \in Workers :
        (/\ req[w] # None
         /\ NotEnabled(Get(cfg[w]), Get(req[w]).gesture))
        => /\ pc[w] = "idle"
           /\ resp[w] = Some([execute |-> FALSE, action |-> None,
                               reason |-> "gesture_disabled"])

(* the step in which an evaluation is denied as disabled leaves the event *)
(* log and the cooldown tracker as they were                              *)
C2_NoEvent ==
    (/\ nops' = nops + 1
     /\ last' = last
     /\ \E w \in Workers :
           /\ pc[w] = "idle"
           /\ req'[w] # None
           /\ NotEnabled(Get(cfg'[w]), Get(req'[w]).gesture))
    => /\ gesture_events' = gesture_events
       /\ last_execution' = last_execution

(* C2: an evaluation of a gesture outside the site's non-null enabled set *)
(* stops at once with execute=false, action null, reason                  *)
(* gesture_disabled, at every confidence, with or without an override     *)
(* mapping, in or out of cooldown, and appends no event.                  *)
C2_DisabledGesture == []C2_Denied /\ [][C2_NoEvent]_vars

(* a disabled gesture denied at confidence 1.0 although the site has an   *)
(* override mapping for it                                                *)
C2_Witness ==
    \E w \in Workers :
        /\ Returned(w)
        /\ Get(resp[w]).reason = "gesture_disabled"
        /\ Get(req[w]).confidence = 10
        /\ \E m \in gesture_configs :
              m.site_id = Get(req[w]).site_id /\ m.gesture = Get(req[w]).gesture

----------------------------------------------------------------------------
(* the update changes the profile: the request names a profile and the   *)
(* site has no config or one stored under another profile name           *)
C3_ChangesProfile(request) ==
    /\ request.profile # None
    /\ \A c \in site_configs :
          c.site_id = request.site_id => c.profile # Get(request.profile)

(* every field is the explicit value if present, else the new profile's default *)
C3_Rule(request, response) ==
    LET defaults == get_profile_defaults(Get(request.profile))
    IN /\ response.confidence_threshold =
            (IF request.confidence_threshold # None
             THEN Get(request.confidence_threshold) ELSE defaults.confidence_threshold)
       /\ response.cooldown_ms =
            (IF request.cooldown_ms # None
             THEN Get(request.cooldown_ms) ELSE defaults.cooldown_ms)
       /\ response.enabled_gestures =
            Some(IF request.enabled_gestures # None
                 THEN Get(request.enabled_gestures) ELSE defaults.enabled_gestures)

C3_IsExample(request) ==
    /\ request.profile = Some("elderly")
    /\ request.confidence_threshold = Some(9)
    /\ request.cooldown_ms = None
    /\ request.enabled_gestures = None

C3_ExampleResult(response) ==
    /\ response.cooldown_ms = 1200
    /\ response.enabled_gestures = Some(<<"open_palm", "fist">>)
    /\ response.confidence_threshold = 9
    /\ response.profile = "elderly"

----------------------------------------------------------------------------
(* C4: an evaluation that reached the cooldown check is denied with       *)
(* cooldown_active, execute=false and the resolved action exactly when an *)
(* accepted execution of its pair is recorded and less than the site's    *)
(* cooldown_ms has elapsed since; a pair never executed is not in         *)
(* cooldown.                                                              *)
C4_Cooldown ==
    \A w \in Workers :
        /\ (Returned(w) /\ Get(resp[w]).reason = "cooldown_active")
           => /\ InCooldownWindow(w)
              /\ \E i \in 1..Len(gesture_events) :
                    /\ gesture_events[i].site_id = Get(req[w]).site_id
                    /\ gesture_events[i].gesture = Get(req[w]).gesture
              /\ Get(resp[w]).execute = FALSE
              /\ act[w] # None
              /\ Get(resp[w]).action = act[w]
        /\ pc[w] = "append"
           => /\ ~InCooldownWindow(w)
              /\ \A c \in site_configs :
                    c.site_id = Get(req[w]).site_id
                    => c.cooldown_ms = Get(cfg[w]).cooldown_ms

(* cooldown_ms=600: the second evaluation of a pair, 400ms after the      *)
(* first was executed, is denied with cooldown_active and the action      *)
C4_Witness ==
    \E w \in Workers :
        /\ Returned(w)
        /\ Get(resp[w]).reason = "cooldown_active"
        /\ Get(resp[w]).action # None
        /\ Get(cfg[w]).cooldown_ms = 600
        /\ now - last_execution[<<Get(req[w]).site_id, Get(req[w]).gesture>>] = 400

----------------------------------------------------------------------------
(* the action the lookup order prescribes: the site's own mapping of the  *)
(* gesture, else the global default                                       *)
C5_Expected(site_id, gesture) ==
    IF \E m \in gesture_configs : m.site_id = site_id /\ m.gesture = gesture
    THEN Some((CHOOSE m \in gesture_configs :
                  m.site_id = site_id /\ m.gesture = gesture).action)
    ELSE IF gesture \in DOMAIN GESTURE_ACTION_MAP
    THEN Some(GESTURE_ACTION_MAP[gesture])
    ELSE None

(* the evaluation of worker w is the request that followed the last save *)
C5_FollowsSave(w) ==
    /\ last # None
    /\ Get(last).op = "save_gesture_mapping"
    /\ nops = Get(last).seq + 1
    /\ req[w] # None
    /\ Get(last).request.site_id = Get(req[w]).site_id
    /\ Get(last).request.gesture = Get(req[w]).gesture

(* C5: the action resolved by an evaluation is the one of the site's own  *)
(* override mapping of the gesture when there is one and the global       *)
(* default otherwise, mappings of other sites not counting; after         *)
(* saveGestureMapping(site, g, a) an evaluation of g on that site that    *)
(* is accepted returns action a.                                          *)
C5_OverrideFirst ==
    \A w \in Workers :
        /\ pc[w] \in {"cooldown", "append", "record"}
           => act[w] = C5_Expected(Get(req[w]).site_id, Get(req[w]).gesture)
        /\ (Returned(w) /\ Get(resp[w]).execute)
           => /\ act[w] # None
              /\ Get(resp[w]).action = act[w]
        /\ (/\ C5_FollowsSave(w)
            /\ \/ pc[w] \in {"cooldown", "append", "record"}
               \/ (Returned(w) /\ Get(resp[w]).execute))
           => act[w] = Some(Get(last).request.action)

(* pinch executed with the action of the mapping saved just before,       *)
(* not the global default click                                           *)
C5_Witness ==
    \E w \in Workers :
        /\ C5_FollowsSave(w)
        /\ Returned(w)
        /\ Get(req[w]).gesture = "pinch"
        /\ Get(resp[w]) = [execute |-> TRUE, action |-> Some("custom_action"),
                           reason |-> "gesture_accepted"]

----------------------------------------------------------------------------
(* C6: an evaluation that passed the enablement and confidence checks and *)
(* found neither an override mapping nor a global default returned        *)
(* execute=false, action null and the reason code unknown_gesture.        *)
C6_UnknownGesture ==
    \A w \in Workers :
        (/\ Returned(w)
         /\ ~NotEnabled(Get(cfg[w]), Get(req[w]).gesture)
         /\ Get(req[w]).confidence >= Get(cfg[w]).confidence_threshold
         /\ act[w] = None
         /\ Get(req[w]).gesture \notin DOMAIN GESTURE_ACTION_MAP)
        => Get(resp[w]) = [execute |-> FALSE, action |-> None,
                           reason |-> "unknown_gesture"]

----------------------------------------------------------------------------
(* the store holds at most one SiteConfig per site *)
C7_OnePerSite ==
    \A site_id \in Sites :
        Cardinality({c \in site_configs : c.site_id = site_id}) <= 1

C7_DefaultResponse(site_id) ==
    [site_id |-> site_id,
     enabled_gestures |->
        Some(<<"open_palm", "fist", "swipe_left", "swipe_right", "pinch">>),
     confidence_threshold |-> 7,
     cooldown_ms |-> 800,
     profile |-> "default"]

C7_Load(site_id, response) ==
    LET old == {c \in site_configs : c.site_id = site_id}
        new == {c \in site_configs' : c.site_id = site_id}
    IN /\ old = {} => /\ response = C7_DefaultResponse(site_id)
                      /\ Cardinality(new) = 1
                      /\ \A c \in new : /\ c.confidence_threshold = 7
                                        /\ c.cooldown_ms = 800
                                        /\ c.profile = "default"
       /\ old # {} => /\ site_configs' = site_configs
                      /\ \A c \in old :
                            /\ response.confidence_threshold = c.confidence_threshold
                            /\ response.cooldown_ms = c.cooldown_ms
                            /\ response.profile = c.profile
       /\ {c \in site_configs' : c.site_id # site_id}
            = {c \in site_configs : c.site_id # site_id}

(* a getEffectiveConfig call; a call that follows another one for the    *)
(* same site returns the same result                                      *)
C7_GetStep ==
    ConfigStep("get_site_config") =>
        /\ C7_Load(Get(last').request.site_id, Get(last').response)
        /\ (/\ last # None
            /\ Get(last).op = "get_site_config"
            /\ Get(last).request = Get(last').request)
           => Get(last').response = Get(last).response

(* step 1 of an evaluation *)
C7_EvalStep ==
    (nops' = nops + 1 /\ last' = last) =>
        \E w \in Workers :
            /\ pc[w] = "idle"
            /\ req'[w] # None
            /\ C7_Load(Get(req'[w]).site_id, Get(cfg'[w]))

(* C7: loading the config of a site without one (by getEffectiveConfig   *)
(* or as step 1 of an evaluation) creates exactly one row with the        *)
(* default profile's values; loading a stored config returns it, equal    *)
(* to the result of the call before, and creates nothing; the store       *)
(* never holds two configs of one site.                                   *)
C7_LazyConfig == []C7_OnePerSite /\ [][C7_GetStep /\ C7_EvalStep]_vars

(* two getEffectiveConfig calls in a row on a site that had no config     *)
C7_Witness ==
    /\ last # None
    /\ Get(last).op = "get_site_config"
    /\ Get(last).seq = 2
    /\ Get(last).response = C7_DefaultResponse(Get(last).request.site_id)
    /\ Cardinality(site_configs) = 1

----------------------------------------------------------------------------
(* as many events as accepted evaluations, each with its evaluation's    *)
(* site, gesture and confidence; a denied evaluation appended none       *)
C8_Count ==
    /\ Len(gesture_events) = accepted + Cardinality({w \in Workers : pc[w] = "record"})
    /\ \A w \in Workers :
          /\ (Returned(w) /\ Get(resp[w]).execute)
             => /\ Get(resp[w]).reason = "gesture_accepted"
                /\ stamp[w] # None
                /\ \E i \in 1..Len(gesture_events) :
                      /\ gesture_events[i].site_id = Get(req[w]).site_id
                      /\ gesture_events[i].gesture = Get(req[w]).gesture
                      /\ gesture_events[i].confidence = Get(req[w]).confidence
                      /\ gesture_events[i].timestamp = Get(stamp[w])
          /\ (Returned(w) /\ ~Get(resp[w]).execute)
             => /\ stamp[w] = None
                /\ Get(resp[w]).reason # "gesture_accepted"

(* a step leaves the log alone or appends one event to it *)
C8_AppendOnly ==
    /\ \/ gesture_events' = gesture_events
       \/ /\ Len(gesture_events') = Len(gesture_events) + 1
          /\ SubSeq(gesture_events', 1, Len(gesture_events)) = gesture_events
          /\ accepted' = accepted
          /\ \E w \in Workers :
                /\ pc[w] = "append"
                /\ pc'[w] = "record"
                /\ gesture_events'[Len(gesture_events')].site_id = Get(req[w]).site_id
                /\ gesture_events'[Len(gesture_events')].gesture = Get(req[w]).gesture
                /\ gesture_events'[Len(gesture_events')].confidence = Get(req[w]).confidence
    /\ accepted' # accepted
       => /\ accepted' = accepted + 1
          /\ \E w \in Workers :
                /\ pc[w] = "record"
                /\ resp'[w] = Some([execute |-> TRUE, action |-> act[w],
                                     reason |-> "gesture_accepted"])

----------------------------------------------------------------------------
(* no (site, gesture) key has two mappings *)
C9_OnePerKey ==
    \A m1, m2 \in gesture_configs :
        (m1.site_id = m2.site_id /\ m1.gesture = m2.gesture) => m1 = m2

(* a save replaces or inserts the mapping of its key and nothing else *)
C9_SaveStep ==
    ConfigStep("save_gesture_mapping") =>
        LET request == Get(last').request
            response == Get(last').response
            old == {m \in gesture_configs :
                      m.site_id = request.site_id /\ m.gesture = request.gesture}
        IN /\ gesture_configs' =
                (gesture_configs \ old)
                   \cup {[site_id |-> request.site_id, gesture |-> request.gesture,
                          action |-> request.action]}
           /\ (response.message = "Gesture mapping created successfully") <=> (old = {})
           /\ (response.message = "Gesture mapping updated successfully") <=> (old # {})
           /\ response.site_id = request.site_id
           /\ response.gesture = request.gesture
           /\ response.action = request.action

(* C9: saveGestureMapping replaces the action of the mapping of its       *)
(* (site, gesture) key or inserts it, answers "updated" exactly when one  *)
(* existed and "created" exactly when none did, and leaves the mappings   *)
(* of other keys alone; no key ever has two mappings.                     *)
C9_Upsert == []C9_OnePerKey /\ [][C9_SaveStep]_vars

(* a second save of a key with another action: answered "updated", and   *)
(* the key's only mapping carries the new action                          *)
C9_Witness ==
    /\ last # None
    /\ Get(last).op = "save_gesture_mapping"
    /\ Get(last).response.message = "Gesture mapping updated successfully"
    /\ Get(last).request.action = "zoom"
    /\ \A m \in gesture_configs :
          (m.site_id = Get(last).request.site_id /\ m.gesture = Get(last).request.gesture)
          => m.action = "zoom"
    /\ Cardinality(gesture_configs) = 2

----------------------------------------------------------------------------
(* the time between the events of two evaluations *)
C10_Gap(w1, w2) ==
    IF Get(stamp[w1]) >= Get(stamp[w2])
    THEN Get(stamp[w1]) - Get(stamp[w2])
    ELSE Get(stamp[w2]) - Get(stamp[w1])

(* the cooldown_ms the two evaluations were made under (the smaller one) *)
C10_Window(w1, w2) ==
    IF Get(cfg[w1]).cooldown_ms <= Get(cfg[w2]).cooldown_ms
    THEN Get(cfg[w1]).cooldown_ms
    ELSE Get(cfg[w2]).cooldown_ms

(* C10: of two racing evaluations of the same (site, gesture) pair, at    *)
(* most one is admitted within one cooldown window: two that both passed  *)
(* the cooldown check and appended an event did so at least cooldown_ms   *)
(* apart.                                                                 *)
C10_OnePerWindow ==
    \A w1, w2 \in Workers :
        (/\ w1 # w2
         /\ stamp[w1] # None
         /\ stamp[w2] # None
         /\ Get(req[w1]).site_id = Get(req[w2]).site_id
         /\ Get(req[w1]).gesture = Get(req[w2]).gesture)
        => C10_Gap(w1, w2) >= C10_Window(w1, w2)

----------------------------------------------------------------------------
(* the profile names a request can carry, and "default" *)
C11_Names == {Get(p) : p \in ProfileInputs \ {None}} \cup {"default"}

C11_DefaultValues ==
    [confidence_threshold |-> 7, cooldown_ms |-> 800,
     enabled_gestures |-> <<"open_palm", "fist", "swipe_left", "swipe_right", "pinch">>]

(* the values profile resolution returns for each name *)
C11_Catalog ==
    \A name \in C11_Names :
        get_profile_defaults(name) =
            CASE name = "elderly" ->
                    [confidence_threshold |-> 6, cooldown_ms |-> 1200,
                     enabled_gestures |-> <<"open_palm", "fist">>]
              [] name = "motor_impaired" ->
                    [confidence_threshold |-> 5, cooldown_ms |-> 1500,
                     enabled_gestures |-> <<"open_palm">>]
              [] OTHER -> C11_DefaultValues

(* the request names a profile outside the catalog and no explicit field *)
C11_UnknownProfileOnly(request) ==
    /\ request.profile # None
    /\ Get(request.profile) \notin {"default", "elderly", "motor_impaired"}
    /\ request.enabled_gestures = None
    /\ request.confidence_threshold = None
    /\ request.cooldown_ms = None

C11_UpdateStep ==
    ConfigStep("update_site_config") =>
        LET request == Get(last').request
            response == Get(last').response
        IN (C3_ChangesProfile(request) /\ C11_UnknownProfileOnly(request))
           => /\ response.confidence_threshold = C11_DefaultValues.confidence_threshold
              /\ response.cooldown_ms = C11_DefaultValues.cooldown_ms
              /\ response.enabled_gestures = Some(C11_DefaultValues.enabled_gestures)

(* C11: profile resolution returns (0.7, 800ms, five gestures) for        *)
(* "default", (0.6, 1200ms, {open_palm, fist}) for "elderly", (0.5,       *)
(* 1500ms, {open_palm}) for "motor_impaired" and the "default" values for *)
(* every other name; an updateConfig that changes the profile to a name   *)
(* outside the catalog, with no explicit fields, yields threshold 0.7,    *)
(* cooldown 800ms and the five default gestures.                          *)
C11_ProfileCatalog == []C11_Catalog /\ [][C11_UpdateStep]_vars

(* a site first given the elderly profile, then the unknown profile kids: *)
(* its config carries the default profile's values under the name kids    *)
C11_Witness ==
    /\ last # None
    /\ Get(last).op = "update_site_config"
    /\ Get(last).seq >= 2
    /\ Get(last).request.profile = Some("kids")
    /\ C11_UnknownProfileOnly(Get(last).request)
    /\ Get(last).response.profile = "kids"
    /\ Get(last).response.cooldown_ms = 800
    /\ Get(last).response.confidence_threshold = 7
    /\ \A c \in site_configs :
          c.site_id = Get(last).request.site_id
          => c.enabled_gestures = Some(json_dumps(C11_DefaultValues.enabled_gestures))

----------------------------------------------------------------------------
(* the gates of the evaluation of worker w, on the config it loaded *)
C12_Disabled(w) == NotEnabled(Get(cfg[w]), Get(req[w]).gesture)

C12_LowConfidence(w) == Get(req[w]).confidence < Get(cfg[w]).confidence_threshold

C12_Codes == {"gesture_disabled", "confidence_too_low", "cooldown_active", "gesture_accepted"}

(* the outcome of a finished evaluation is the one of its first failing   *)
(* gate, and an evaluation still running has passed the gates behind it   *)
C12_Outcome ==
    \A w \in Workers :
        /\ pc[w] \in {"lookup", "cooldown", "append", "record"}
           => ~C12_Disabled(w) /\ ~C12_LowConfidence(w)
        /\ pc[w] \in {"cooldown", "append", "record"} => act[w] # None
        /\ pc[w] = "append" => ~InCooldownWindow(w)
        /\ Returned(w)
           => IF C12_Disabled(w)
              THEN Get(resp[w]) = [execute |-> FALSE, action |-> None,
                                   reason |-> "gesture_disabled"]
              ELSE IF C12_LowConfidence(w)
              THEN Get(resp[w]) = [execute |-> FALSE, action |-> None,
                                   reason |-> "confidence_too_low"]
              ELSE IF act[w] = None
              THEN /\ Get(resp[w]).execute = FALSE
                   /\ Get(resp[w]).action = None
                   /\ Get(resp[w]).reason \notin C12_Codes
              ELSE IF Get(resp[w]).execute
              THEN Get(resp[w]) = [execute |-> TRUE, action |-> act[w],
                                   reason |-> "gesture_accepted"]
              ELSE /\ Get(resp[w]) = [execute |-> FALSE, action |-> act[w],
                                      reason |-> "cooldown_active"]
                   /\ InCooldownWindow(w)

(* execute=true is returned only by an evaluation that passed the         *)
(* cooldown check, the last gate, at the time it read the clock           *)
C12_Flow ==
    \A w \in Workers :
        /\ (pc'[w] = "append" /\ pc[w] # "append")
           => /\ pc[w] = "cooldown"
              /\ LET key == <<Get(req[w]).site_id, Get(req[w]).gesture>>
                 IN key \in DOMAIN last_execution
                    => now' - last_execution[key] >= Get(cfg[w]).cooldown_ms
        /\ (pc'[w] = "record" /\ pc[w] # "record") => pc[w] = "append"
        /\ (resp'[w] # resp[w] /\ resp'[w] # None /\ "execute" \in DOMAIN Get(resp'[w])
              /\ Get(resp'[w]).execute)
           => pc[w] = "record"

(* C12: every evaluation that returns has exactly one outcome, the one of *)
(* the first failing gate in the order enablement, confidence, action     *)
(* lookup, cooldown: a disabled gesture below the threshold yields        *)
(* gesture_disabled, a low-confidence enabled gesture in cooldown yields  *)
(* confidence_too_low with action null, and execute=true is returned if   *)
(* and only if all four gates pass.                                       *)
C12_GateOrder == []C12_Outcome /\ [][C12_Flow]_vars

(* a disabled gesture sent below the threshold, denied as disabled *)
C12_Witness ==
    \E w \in Workers :
        /\ Returned(w)
        /\ C12_Disabled(w)
        /\ C12_LowConfidence(w)
        /\ Get(resp[w]).reason = "gesture_disabled"

----------------------------------------------------------------------------
(* the update keeps the profile of the stored config: it names none or    *)
(* the stored one                                                         *)
C13_KeepsProfile(request, stored) ==
    request.profile = None \/ request.profile = Some(stored.profile)

(* every field present in the partial takes its value, every other field  *)
(* and the profile name keep the stored value                             *)
C13_Frame(request, stored, config, response) ==
    /\ config.profile = stored.profile
    /\ config.confidence_threshold =
          (IF request.confidence_threshold # None
           THEN Get(request.confidence_threshold) ELSE stored.confidence_threshold)
    /\ config.cooldown_ms =
          (IF request.cooldown_ms # None
           THEN Get(request.cooldown_ms) ELSE stored.cooldown_ms)
    /\ IF request.enabled_gestures # None
       THEN response.enabled_gestures = request.enabled_gestures
       ELSE config.enabled_gestures = stored.enabled_gestures
    /\ response.profile = stored.profile
    /\ response.confidence_threshold = config.confidence_threshold
    /\ response.cooldown_ms = config.cooldown_ms

C13_UpdateStep ==
    ConfigStep("update_site_config") =>
        LET request == Get(last').request
            response == Get(last').response
            old == {c \in site_configs : c.site_id = request.site_id}
            new == {c \in site_configs' : c.site_id = request.site_id}
        IN /\ Cardinality(new) = 1
           /\ {c \in site_configs' : c.site_id # request.site_id}
                = {c \in site_configs : c.site_id # request.site_id}
           /\ \A stored \in old : \A config \in new :
                 IF C13_KeepsProfile(request, stored)
                 THEN C13_Frame(request, stored, config, response)
                 ELSE /\ C3_Rule(request, response)
                      /\ config.profile \in {Get(request.profile), "default"}

----------------------------------------------------------------------------
(* the evaluation of worker w has appended its event, the last of the log *)
C14_Executed(w) ==
    /\ stamp[w] # None
    /\ \/ pc[w] = "record"
       \/ Returned(w) /\ Get(resp[w]).execute

(* C14: with requests served one at a time, an accepted execution of a    *)
(* (site, gesture) pair comes at least cooldown_ms after every earlier    *)
(* accepted execution of the pair, cooldown_ms being the site's stored    *)
(* value when the later one is evaluated: the events of the two are that  *)
(* far apart, and so are the recorded execution time of the earlier one   *)
(* and the cooldown check of the later one.                               *)
C14_Separation ==
    \A w \in Workers :
        /\ pc[w] \in {"lookup", "cooldown", "append", "record"}
           => \A c \in site_configs :
                 c.site_id = Get(req[w]).site_id
                 => c.cooldown_ms = Get(cfg[w]).cooldown_ms
        /\ pc[w] = "append"
           => LET key == <<Get(req[w]).site_id, Get(req[w]).gesture>>
              IN key \in DOMAIN last_execution
                 => now - last_execution[key] >= Get(cfg[w]).cooldown_ms
        /\ C14_Executed(w)
           => /\ Len(gesture_events) >= 1
              /\ gesture_events[Len(gesture_events)].timestamp = Get(stamp[w])
              /\ \A i \in 1..(Len(gesture_events) - 1) :
                    (/\ gesture_events[i].site_id = Get(req[w]).site_id
                     /\ gesture_events[i].gesture = Get(req[w]).gesture)
                    => Get(stamp[w]) - gesture_events[i].timestamp
                         >= Get(cfg[w]).cooldown_ms

(* a pair executed twice under cooldown_ms=800, exactly 800ms apart *)
C14_Witness ==
    \E w \in Workers :
        /\ Returned(w)
        /\ Get(resp[w]).execute
        /\ Get(cfg[w]).cooldown_ms = 800
        /\ Len(gesture_events) = 2
        /\ gesture_events[1].site_id = gesture_events[2].site_id
        /\ gesture_events[1].gesture = gesture_events[2].gesture
        /\ gesture_events[2].timestamp - gesture_events[1].timestamp = 800

----------------------------------------------------------------------------
(* every pair of the tracker was executed: the log has an event of the    *)
(* pair, none later than the recorded time unless its evaluation has not  *)
(* recorded it yet; a cooldown_active denial is measured from that time   *)
C15_TrackerOrigin ==
    /\ \A key \in DOMAIN last_execution :
          /\ \E i \in 1..Len(gesture_events) :
                /\ <<gesture_events[i].site_id, gesture_events[i].gesture>> = key
                /\ gesture_events[i].timestamp <= last_execution[key]
          /\ (\A w \in Workers : pc[w] # "record")
             => \A i \in 1..Len(gesture_events) :
                   <<gesture_events[i].site_id, gesture_events[i].gesture>> = key
                   => gesture_events[i].timestamp <= last_execution[key]
    /\ \A w \in Workers :
          (Returned(w) /\ Get(resp[w]).reason = "cooldown_active")
          => LET key == <<Get(req[w]).site_id, Get(req[w]).gesture>>
             IN /\ key \in DOMAIN last_execution
                /\ now - last_execution[key] < Get(cfg[w]).cooldown_ms

(* the tracker is written only by the step that returns execute=true, for *)
(* the pair of that evaluation alone; a step that returns a denial leaves *)
(* it as it was                                                           *)
C15_TrackerStep ==
    /\ last_execution' # last_execution
       => \E w \in Workers :
             LET key == <<Get(req[w]).site_id, Get(req[w]).gesture>>
             IN /\ pc[w] = "record"
                /\ resp'[w] = Some([execute |-> TRUE, action |-> act[w],
                                     reason |-> "gesture_accepted"])
                /\ DOMAIN last_execution' = DOMAIN last_execution \cup {key}
                /\ last_execution'[key] = now'
                /\ \A k \in DOMAIN last_execution \ {key} :
                      last_execution'[k] = last_execution[k]
    /\ \A w \in Workers :
          (/\ resp'[w] # resp[w]
           /\ resp'[w] # None
           /\ "execute" \in DOMAIN Get(resp'[w])
           /\ ~Get(resp'[w]).execute)
          => last_execution' = last_execution

(* C15: a denied evaluation, whatever its reason, leaves the cooldown     *)
(* tracker unchanged: the last-execution time of a pair is written only   *)
(* by an accepted evaluation of that pair, so a cooldown_active denial    *)
(* does not restart the window and an evaluation made cooldown_ms after   *)
(* the last accepted execution passes the gate whatever was denied in     *)
(* between; an accepted execution never puts another pair into cooldown.  *)
C15_DenialsLeaveTracker == []C15_TrackerOrigin /\ [][C15_TrackerStep]_vars

(* an accepted execution followed by two evaluations that were not, the   *)
(* last one denied in cooldown 400ms after the recorded time: the tracker *)
(* still holds the time of the accepted one                               *)
C15_Witness ==
    \E w \in Workers :
        /\ Returned(w)
        /\ Get(resp[w]).reason = "cooldown_active"
        /\ last = None
        /\ nops = 3
        /\ accepted = 1
        /\ now - last_execution[<<Get(req[w]).site_id, Get(req[w]).gesture>>] = 400
        /\ DOMAIN last_execution = {<<Get(req[w]).site_id, Get(req[w]).gesture>>}

----------------------------------------------------------------------------
(* the cooldown check of an evaluation denies it exactly when less than   *)
(* the cooldown_ms stored for the site at that moment has elapsed since   *)
(* the recorded execution of the pair                                     *)
C16_CheckStep ==
    \A w \in Workers :
        (pc[w] = "cooldown" /\ pc'[w] # "cooldown")
        => LET key == <<Get(req[w]).site_id, Get(req[w]).gesture>>
               stored == {c \in site_configs : c.site_id = Get(req[w]).site_id}
           IN /\ Cardinality(stored) = 1
              /\ site_configs' = site_configs
              /\ \A c \in stored :
                    /\ (pc'[w] = "idle" /\ resp'[w] = Some(Deny(act[w], "cooldown_active")))
                       <=> (/\ key \in DOMAIN last_execution
                            /\ now' - last_execution[key] < c.cooldown_ms)
                    /\ pc'[w] = "append"
                       <=> (key \in DOMAIN last_execution
                            => now' - last_execution[key] >= c.cooldown_ms)

(* no evaluation made under cooldown_ms=0 was denied with cooldown_active *)
C16_ZeroNeverActive ==
    \A w \in Workers :
        (Returned(w) /\ Get(resp[w]).reason = "cooldown_active")
        => Get(cfg[w]).cooldown_ms > 0

(* C16: the cooldown decision uses the site's cooldown_ms as it is when   *)
(* the evaluation is made, not as it was when the previous execution was  *)
(* recorded: an updateConfig that lowers it ends a running cooldown       *)
(* early, one that raises it extends it, and with cooldown_ms=0 no        *)
(* evaluation is denied with cooldown_active.                             *)
C16_CurrentCooldown == []C16_ZeroNeverActive /\ [][C16_CheckStep]_vars

(* a pair executed under cooldown_ms=800, the cooldown then set to 0, and *)
(* the pair executed again 400ms after the first time                     *)
C16_Witness ==
    \E w \in Workers :
        /\ Returned(w)
        /\ Get(resp[w]).execute
        /\ Get(cfg[w]).cooldown_ms = 0
        /\ nops = 3
        /\ last # None
        /\ Get(last).op = "update_site_config"
        /\ Get(last).seq = 2
        /\ Get(last).request.cooldown_ms = Some(0)
        /\ Len(gesture_events) = 2
        /\ gesture_events[1].site_id = gesture_events[2].site_id
        /\ gesture_events[1].gesture = gesture_events[2].gesture
        /\ gesture_events[2].timestamp - gesture_events[1].timestamp = 400

----------------------------------------------------------------------------
(* the evaluation of worker w ended with an error raised to its caller *)
C17_Failed(w) ==
    /\ pc[w] = "idle"
    /\ resp[w] # None
    /\ "raised" \in DOMAIN Get(resp[w])

(* an evaluation ends with an error only after it passed the four gates,  *)
(* it has no event and no response, and its pair is no more in cooldown   *)
(* than before it                                                         *)
C17_AfterFailure ==
    \A w \in Workers :
        C17_Failed(w)
        => /\ ~NotEnabled(Get(cfg[w]), Get(req[w]).gesture)
           /\ Get(req[w]).confidence >= Get(cfg[w]).confidence_threshold
           /\ act[w] # None
           /\ ~InCooldownWindow(w)
           /\ "execute" \notin DOMAIN Get(resp[w])
           /\ stamp[w] = None
           /\ Len(gesture_events) = accepted

(* the step in which the commit of the event fails changes neither the    *)
(* event log nor the cooldown tracker, returns no result and starts no    *)
(* second attempt                                                         *)
C17_FailStep ==
    \A w \in Workers :
        (resp'[w] # resp[w] /\ resp'[w] # None /\ "raised" \in DOMAIN Get(resp'[w]))
        => /\ pc[w] = "append"
           /\ pc'[w] = "idle"
           /\ resp'[w] = Some([raised |-> "StorageError"])
           /\ gesture_events' = gesture_events
           /\ last_execution' = last_execution
           /\ accepted' = accepted
           /\ nops' = nops

----------------------------------------------------------------------------
C18_FiveDefaults == {"open_palm", "fist", "swipe_left", "swipe_right", "pinch"}

(* C18: every stored SiteConfig, and every config returned by             *)
(* getEffectiveConfig, updateConfig or the load of an evaluation, has a   *)
(* non-null enabled-gesture set (an empty one disables every gesture), so *)
(* "all gestures enabled" is never reached; on a site with the default    *)
(* config a gesture outside the five defaults is denied with              *)
(* gesture_disabled even when the site has an override mapping for it.    *)
C18_NeverNull ==
    /\ \A c \in site_configs :
          /\ c.enabled_gestures # None
          /\ get_enabled_gestures(c.enabled_gestures) # None
    /\ (last # None /\ Get(last).op \in {"get_site_config", "update_site_config"})
       => /\ Get(last).response.enabled_gestures # None
          /\ (/\ Get(last).op = "update_site_config"
              /\ Get(last).request.enabled_gestures # None)
             => Get(last).response.enabled_gestures = Get(last).request.enabled_gestures
    /\ \A w \in Workers :
          /\ cfg[w] # None => Get(cfg[w]).enabled_gestures # None
          /\ (Returned(w) /\ Get(cfg[w]).enabled_gestures = Some(<<>>))
             => Get(resp[w]) = [execute |-> FALSE, action |-> None,
                                reason |-> "gesture_disabled"]
          /\ (/\ Returned(w)
              /\ Get(cfg[w]) = C7_DefaultResponse(Get(req[w]).site_id)
              /\ Get(req[w]).gesture \notin C18_FiveDefaults)
             => Get(resp[w]) = [execute |-> FALSE, action |-> None,
                                reason |-> "gesture_disabled"]

(* wave, which has an override mapping on the site, denied as disabled    *)
(* under the default config, while another site has an empty enabled set  *)
C18_Witness ==
    \E w \in Workers :
        /\ Returned(w)
        /\ Get(cfg[w]) = C7_DefaultResponse(Get(req[w]).site_id)
        /\ Get(req[w]).gesture \notin C18_FiveDefaults
        /\ Get(resp[w]).reason = "gesture_disabled"
        /\ \E m \in gesture_configs :
              m.site_id = Get(req[w]).site_id /\ m.gesture = Get(req[w]).gesture
        /\ \E c \in site_configs :
              get_enabled_gestures(c.enabled_gestures) = Some(<<>>)

----------------------------------------------------------------------------
(* every stored config has a threshold in [0,1] (0..10 tenths), a         *)
(* cooldown_ms that is not negative and a profile name that is not empty  *)
C19_Ranges ==
    \A c \in site_configs :
        /\ c.confidence_threshold \in 0..10
        /\ c.cooldown_ms >= 0
        /\ c.profile # ""

(* an update with an empty profile name, or with none on a site without   *)
(* config, stores the profile name "default"                              *)
C19_UpdateStep ==
    ConfigStep("update_site_config") =>
        LET request == Get(last').request
            old == {c \in site_configs : c.site_id = request.site_id}
            new == {c \in site_configs' : c.site_id = request.site_id}
        IN (\/ request.profile = Some("")
            \/ request.profile = None /\ old = {})
           => /\ new # {}
              /\ \A c \in new : c.profile = "default"
              /\ Get(last').response.profile = "default"

(* C19: after any sequence of getEffectiveConfig, evaluate and            *)
(* updateConfig calls with validated inputs (confidence_threshold in      *)
(* [0,1], cooldown_ms >= 0), every stored SiteConfig has a threshold in   *)
(* [0,1], a cooldown_ms >= 0 and a non-empty profile name; an update that *)
(* supplies an empty profile name, or none on a site without config,      *)
(* leaves the stored profile name "default".                              *)
C19_StoredRanges == []C19_Ranges /\ [][C19_UpdateStep]_vars

(* the third request is an update with the empty profile name and        *)
(* cooldown_ms=0: its site is stored as default with cooldown 0, next to  *)
(* a site whose threshold was set to 0.9                                  *)
C19_Witness ==
    /\ last # None
    /\ Get(last).op = "update_site_config"
    /\ Get(last).seq = 3
    /\ Get(last).request.profile = Some("")
    /\ Get(last).request.cooldown_ms = Some(0)
    /\ \E c \in site_configs :
          /\ c.site_id = Get(last).request.site_id
          /\ c.profile = "default"
          /\ c.cooldown_ms = 0
          /\ c.confidence_threshold = 7
    /\ \E c \in site_configs :
          /\ c.site_id # Get(last).request.site_id
          /\ c.profile = "default"
          /\ c.confidence_threshold = 9

====
